---- MODULE Spec2Model ----
(***************************************************************************)
(* A model of src/src/main.c: a task scheduler with four dispatch policies *)
(* (round robin, first come first served, priority, timer-preempted        *)
(* priority) over a fixed-capacity task list, and the primitives the tasks *)
(* use: a bounded circular queue, an event flag, a spinning counting       *)
(* semaphore and a spinning test-and-set mutex.                            *)
(*                                                                         *)
(* Specifications:                                                         *)
(*   SpecQueue  one context calling queue_push / queue_pop                 *)
(*   SpecPC     producer_task and consumer_task run in any order           *)
(*   SpecSeq    one context calling the semaphore, mutex and event flag    *)
(*   SpecSync   several contexts interleaving on the semaphore and mutex   *)
(*   Spec       the scheduler: registry, scheduler_run, timer_isr          *)
(*   SpecRR     the scheduler left at SCHEDULER_RR, with a log of its runs *)
(*   SpecRRWait the scheduler left at SCHEDULER_RR, with a count of the    *)
(*              calls each eligible task has waited                        *)
(*   SpecFCFS   the scheduler set up with SCHEDULER_FCFS                   *)
(*   SpecPre    the scheduler set up with SCHEDULER_PREEMPTIVE             *)
(*   SpecSpin   scheduler_run under SCHEDULER_RR with callbacks that call  *)
(*              mutex_lock / mutex_unlock, and a second context that does  *)
(*   SpecRegistry  scheduler_add_task / scheduler_remove_task up to and    *)
(*              beyond the capacity of task_list                           *)
(***************************************************************************)
EXTENDS Integers, Sequences, FiniteSets, TLC

(***************************************************************************)
(* Program constants                                                       *)
(***************************************************************************)
MAX_TASKS == 5
MAX_QUEUE_SIZE == 10
INT_MAX == 999
NULL == 0

(***************************************************************************)
(* Bounds of the model                                                     *)
(***************************************************************************)
MaxItem == 1          \* queue items are the pointers 0..MaxItem (0 is NULL)
MaxSemValue == 2      \* semaphore_init values and the cap on semaphore_signal
NumContexts == 2      \* execution contexts of SpecSync
MaxRegistered == 2    \* tasks registered in Spec
MaxRegisteredRR == 3  \* tasks registered in SpecRR
MaxInterval == 2      \* interval_ms of a registered task is in 1..MaxInterval
MaxPriority == 2      \* priority of a registered task is in 1..MaxPriority or INT_MAX
MaxTime == 2          \* the clock stops at MaxTime
MaxData == 12         \* producer_task stops producing at data = MaxData

Items == 0..MaxItem
SemInitValues == (-1)..MaxSemValue
Contexts == 1..NumContexts
SeqContext == 1
Intervals == 1..MaxInterval
Priorities == (1..MaxPriority) \cup {INT_MAX}
SchedulerTypes == {"SCHEDULER_RR", "SCHEDULER_FCFS", "SCHEDULER_PRIORITY", "SCHEDULER_PREEMPTIVE"}
\* the callback of the n-th scheduler_add_task call: the four app_main
\* registers, then the first two again
TaskFuncs == <<"producer_task", "consumer_task", "critical_task", "semaphore_task",
               "producer_task", "consumer_task">>

VARIABLES
    task_list,        \* task_t task_list[MAX_TASKS]: the entries 0..task_count-1 (the
                      \* code reads and writes no entry at or beyond task_count)
    task_count,       \* int task_count
    scheduler_type,   \* scheduler_type_t scheduler_type
    current_task,     \* volatile int current_task (used by timer_isr)
    rr_current_task,  \* static int current_task of scheduler_run, the RR cursor
    now,              \* esp_timer_get_time() / 1000
    timer_armed,      \* scheduler_setup started the hardware timer
    configured,       \* scheduler_setup has been called
    main_pc,          \* main context: "idle" or "callback" (inside scheduler_run)
    run_index,        \* the task scheduler_run dispatched
    run_now,          \* the local `now` of scheduler_run
    isr_pc,           \* interrupt context: "off" or "callback" (inside timer_isr)
    isr_now,          \* the local `now` of timer_isr
    task_queue,       \* queue_t task_queue
    data,             \* static int data of producer_task
    event_flag,       \* event_flag_t event_flag
    semaphore,        \* semaphore_t semaphore
    mutex,            \* mutex_t mutex
    pc,               \* per context: where it is inside a primitive
    sem_tmp,          \* per context: the register holding count in sem->count--
    \* history variables
    last_op,          \* the last queue call and how it ended ("consumer_idle": a
                      \* consumer_task run that made none)
    pop_ret,          \* the value the last queue_pop returned
    pop_head,         \* the oldest accepted item when the last queue_pop was called
    fifo,             \* accepted and not yet popped items, oldest first
    sem_init_value,   \* the value of the last semaphore_init (0: static init)
    sem_balance,      \* semaphore_signal calls minus semaphore_wait returns since then
    lock_returns,     \* mutex_lock returns since the last mutex_unlock
    last_event,       \* "run_idle" / "isr_idle" / "remove_ignored" / "add_rejected" when
                      \* the last scheduler operation was a call that changed nothing,
                      \* else "none"
    removed,          \* indices scheduler_remove_task has marked Terminated
    dispatched_at,    \* per index: the time at which its callback was last invoked (-1: never)
    run_log,          \* SpecRR: what the last scheduler_run calls dispatched (-1: nothing)
    passed_over       \* SpecRRWait, per index: the scheduler_run calls in a row at which
                      \* the task was eligible and another index was examined

queue_vars == <<task_queue, data, last_op, pop_ret, pop_head, fifo>>
sync_vars == <<event_flag, semaphore, mutex, pc, sem_tmp, sem_init_value, sem_balance,
               lock_returns>>
sched_vars == <<task_list, task_count, scheduler_type, current_task, rr_current_task,
                now, timer_armed, configured, main_pc, run_index, run_now,
                isr_pc, isr_now, last_event, removed, dispatched_at>>
log_vars == <<run_log, passed_over>>
vars == <<queue_vars, sync_vars, sched_vars, log_vars>>

NoRet == -1  \* pop_ret, pop_head when there is no such value

(***************************************************************************)
(* Queue: queue_push, queue_pop                                            *)
(***************************************************************************)
queue_t_init ==
    [items |-> [i \in 0..(MAX_QUEUE_SIZE - 1) |-> NULL],
     front |-> 0, rear |-> 0, size |-> 0]

\* a queue_push whose capacity test is off by one
queue_push_off_by_one(queue, item) ==
    IF queue.size <= MAX_QUEUE_SIZE
    THEN [queue EXCEPT !.items[queue.rear] = item,
                       !.rear = (queue.rear + 1) % MAX_QUEUE_SIZE,
                       !.size = queue.size + 1]
    ELSE queue

\* a queue_push that overwrites the oldest item of a full queue
queue_push_overwrite(queue, item) ==
    IF queue.size < MAX_QUEUE_SIZE
    THEN [queue EXCEPT !.items[queue.rear] = item,
                       !.rear = (queue.rear + 1) % MAX_QUEUE_SIZE,
                       !.size = queue.size + 1]
    ELSE [queue EXCEPT !.items[queue.rear] = item,
                       !.rear = (queue.rear + 1) % MAX_QUEUE_SIZE,
                       !.front = (queue.front + 1) % MAX_QUEUE_SIZE]

\* the queue after queue_push(queue, item)
queue_push(queue, item) ==
    IF queue.size < MAX_QUEUE_SIZE
    THEN [queue EXCEPT !.items[queue.rear] = item,
                       !.rear = (queue.rear + 1) % MAX_QUEUE_SIZE,
                       !.size = queue.size + 1]
    ELSE queue

\* a queue_pop that takes the newest item
queue_pop_lifo(queue) ==
    IF queue.size > 0
    THEN LET last == (queue.rear + MAX_QUEUE_SIZE - 1) % MAX_QUEUE_SIZE
         IN [queue |-> [queue EXCEPT !.rear = last, !.size = queue.size - 1],
             ret |-> queue.items[last]]
    ELSE [queue |-> queue, ret |-> NULL]

\* the queue after queue_pop(queue) and the value returned
queue_pop(queue) ==
    IF queue.size > 0
    THEN [queue |-> [queue EXCEPT !.front = (queue.front + 1) % MAX_QUEUE_SIZE,
                                  !.size = queue.size - 1],
          ret |-> queue.items[queue.front]]
    ELSE [queue |-> queue, ret |-> NULL]

\* the stored items from front to rear
LiveItems(queue) ==
    [i \in 1..queue.size |-> queue.items[(queue.front + i - 1) % MAX_QUEUE_SIZE]]

QueuePush(item) ==
    /\ task_queue' = queue_push(task_queue, item)
    /\ last_op' = IF task_queue.size < MAX_QUEUE_SIZE THEN "push" ELSE "push_dropped"
    /\ fifo' = IF task_queue.size < MAX_QUEUE_SIZE THEN Append(fifo, item) ELSE fifo
    /\ pop_ret' = NoRet
    /\ pop_head' = NoRet
    /\ UNCHANGED <<data, sync_vars, sched_vars, log_vars>>

QueuePop ==
    /\ task_queue' = queue_pop(task_queue).queue
    /\ pop_ret' = queue_pop(task_queue).ret
    /\ pop_head' = IF fifo # <<>> THEN Head(fifo) ELSE NoRet
    /\ last_op' = IF task_queue.size > 0 THEN "pop" ELSE "pop_empty"
    /\ fifo' = IF fifo # <<>> THEN Tail(fifo) ELSE fifo
    /\ UNCHANGED <<data, sync_vars, sched_vars, log_vars>>

(***************************************************************************)
(* Event flag                                                              *)
(***************************************************************************)
event_flag_set == event_flag' = [flag |-> TRUE]
event_flag_clear == event_flag' = [flag |-> FALSE]
event_flag_check == event_flag.flag

EventFlagSet(c) ==
    /\ pc[c] = "idle"
    /\ event_flag_set
    /\ UNCHANGED <<sched_vars, log_vars, queue_vars, semaphore, mutex, pc, sem_tmp, sem_init_value, sem_balance, lock_returns>>

EventFlagClear(c) ==
    /\ pc[c] = "idle"
    /\ event_flag_clear
    /\ UNCHANGED <<sched_vars, log_vars, queue_vars, semaphore, mutex, pc, sem_tmp, sem_init_value, sem_balance, lock_returns>>

(***************************************************************************)
(* producer_task and consumer_task, each run to completion                 *)
(***************************************************************************)
\* producer_task: queue_push(&task_queue, data); data++; event_flag_set(&event_flag)
ProducerTask ==
    /\ data < MaxData
    /\ task_queue' = queue_push(task_queue, data)
    /\ last_op' = IF task_queue.size < MAX_QUEUE_SIZE THEN "push" ELSE "push_dropped"
    /\ fifo' = IF task_queue.size < MAX_QUEUE_SIZE THEN Append(fifo, data) ELSE fifo
    /\ pop_ret' = NoRet
    /\ pop_head' = NoRet
    /\ data' = data + 1
    /\ event_flag_set
    /\ UNCHANGED <<semaphore, mutex, pc, sem_tmp, sem_init_value, sem_balance, lock_returns>>
    /\ UNCHANGED <<sched_vars, log_vars>>

\* consumer_task: if (event_flag_check(&event_flag)) { queue_pop(&task_queue);
\* event_flag_clear(&event_flag); }
ConsumerTask ==
    /\ IF event_flag_check
       THEN /\ task_queue' = queue_pop(task_queue).queue
            /\ pop_ret' = queue_pop(task_queue).ret
            /\ pop_head' = IF fifo # <<>> THEN Head(fifo) ELSE NoRet
            /\ last_op' = IF task_queue.size > 0 THEN "pop" ELSE "pop_empty"
            /\ fifo' = IF fifo # <<>> THEN Tail(fifo) ELSE fifo
            /\ event_flag_clear
       ELSE /\ last_op' = "consumer_idle"
            /\ pop_ret' = NoRet
            /\ pop_head' = NoRet
            /\ UNCHANGED <<task_queue, fifo, event_flag>>
    /\ UNCHANGED <<data, semaphore, mutex, pc, sem_tmp, sem_init_value, sem_balance,
                   lock_returns>>
    /\ UNCHANGED <<sched_vars, log_vars>>

(***************************************************************************)
(* Semaphore: semaphore_init, semaphore_wait, semaphore_signal.            *)
(* semaphore_wait is the loop `while (sem->count <= 0);` followed by       *)
(* `sem->count--`, a load and a store of the volatile count.               *)
(***************************************************************************)
\* sem_balance is followed within -(MaxSemValue + 2)..(MaxSemValue + 2)
BalanceClamp(b) ==
    IF b > MaxSemValue + 2 THEN MaxSemValue + 2
    ELSE IF b < -(MaxSemValue + 2) THEN -(MaxSemValue + 2)
    ELSE b

SemaphoreInit(c, value) ==
    /\ pc[c] = "idle"
    /\ semaphore' = [count |-> value]
    /\ sem_init_value' = value
    /\ sem_balance' = 0
    /\ UNCHANGED <<sched_vars, log_vars, queue_vars, event_flag, mutex, pc, sem_tmp, lock_returns>>

SemaphoreWaitCall(c) ==
    /\ pc[c] = "idle"
    /\ pc' = [pc EXCEPT ![c] = "sem_spin"]
    /\ UNCHANGED <<sched_vars, log_vars, queue_vars, event_flag, semaphore, mutex, sem_tmp, sem_init_value, sem_balance, lock_returns>>

\* a loop condition that lets count 0 through
semaphore_wait_spins_strict(sem) == sem.count < 0

\* the loop condition of semaphore_wait
semaphore_wait_spins(sem) == sem.count <= 0

\* one evaluation of the loop condition that ends the loop
SemaphoreWaitExitLoop(c) ==
    /\ pc[c] = "sem_spin"
    /\ ~semaphore_wait_spins(semaphore)
    /\ pc' = [pc EXCEPT ![c] = "sem_load"]
    /\ UNCHANGED <<sched_vars, log_vars, queue_vars, event_flag, semaphore, mutex, sem_tmp, sem_init_value, sem_balance, lock_returns>>

\* a decrement that looks at count again and goes back to the loop
SemaphoreWaitLoadRecheck(c) ==
    /\ pc[c] = "sem_load"
    /\ IF semaphore.count > 0
       THEN /\ sem_tmp' = [sem_tmp EXCEPT ![c] = semaphore.count]
            /\ pc' = [pc EXCEPT ![c] = "sem_store"]
       ELSE /\ pc' = [pc EXCEPT ![c] = "sem_spin"]
            /\ UNCHANGED sem_tmp
    /\ UNCHANGED <<sched_vars, log_vars, queue_vars, event_flag, semaphore, mutex, sem_init_value, sem_balance, lock_returns>>

\* sem->count--, the load (the model stops following count below -MaxSemValue)
SemaphoreWaitLoad(c) ==
    /\ pc[c] = "sem_load"
    /\ semaphore.count > -MaxSemValue
    /\ sem_tmp' = [sem_tmp EXCEPT ![c] = semaphore.count]
    /\ pc' = [pc EXCEPT ![c] = "sem_store"]
    /\ UNCHANGED <<sched_vars, log_vars, queue_vars, event_flag, semaphore, mutex, sem_init_value, sem_balance, lock_returns>>

\* sem->count--, the store; semaphore_wait returns
SemaphoreWaitStore(c) ==
    /\ pc[c] = "sem_store"
    /\ semaphore' = [count |-> sem_tmp[c] - 1]
    /\ sem_tmp' = [sem_tmp EXCEPT ![c] = 0]
    /\ pc' = [pc EXCEPT ![c] = "idle"]
    /\ sem_balance' = BalanceClamp(sem_balance - 1)
    /\ UNCHANGED <<sched_vars, log_vars, queue_vars, event_flag, mutex, sem_init_value, lock_returns>>

SemaphoreSignal(c) ==
    /\ pc[c] = "idle"
    /\ semaphore.count < MaxSemValue
    /\ semaphore' = [count |-> semaphore.count + 1]
    /\ sem_balance' = BalanceClamp(sem_balance + 1)
    /\ UNCHANGED <<sched_vars, log_vars, queue_vars, event_flag, mutex, pc, sem_tmp, sem_init_value, lock_returns>>

(***************************************************************************)
(* Mutex: mutex_lock spins on __atomic_test_and_set, mutex_unlock clears   *)
(***************************************************************************)
\* a test-and-set that stores without reporting the previous value
atomic_test_and_set_blind(m) == [ret |-> FALSE, m |-> [locked |-> TRUE]]

\* __atomic_test_and_set: the previous value, and the flag set
atomic_test_and_set(m) == [ret |-> m.locked, m |-> [locked |-> TRUE]]

MutexLockCall(c) ==
    /\ pc[c] = "idle"
    /\ pc' = [pc EXCEPT ![c] = "mutex_spin"]
    /\ UNCHANGED <<sched_vars, log_vars, queue_vars, event_flag, semaphore, mutex, sem_tmp, sem_init_value, sem_balance, lock_returns>>

\* a mutex_lock that gives up spinning and returns with the mutex still held
MutexLockTimesOut(c) ==
    /\ pc[c] = "mutex_spin"
    /\ mutex' = atomic_test_and_set(mutex).m
    /\ pc' = [pc EXCEPT ![c] = "idle"]
    /\ lock_returns' = lock_returns + 1
    /\ UNCHANGED <<sched_vars, log_vars, queue_vars, event_flag, semaphore, sem_tmp, sem_init_value, sem_balance>>

\* one iteration of the loop of mutex_lock that ends it: mutex_lock returns
MutexLockAcquire(c) ==
    /\ pc[c] = "mutex_spin"
    /\ ~atomic_test_and_set(mutex).ret
    /\ mutex' = atomic_test_and_set(mutex).m
    /\ pc' = [pc EXCEPT ![c] = "idle"]
    /\ lock_returns' = lock_returns + 1
    /\ UNCHANGED <<sched_vars, log_vars, queue_vars, event_flag, semaphore, sem_tmp, sem_init_value, sem_balance>>

MutexUnlock(c) ==
    /\ pc[c] = "idle"
    /\ mutex' = [locked |-> FALSE]
    /\ lock_returns' = 0
    /\ UNCHANGED <<sched_vars, log_vars, queue_vars, event_flag, semaphore, pc, sem_tmp, sem_init_value, sem_balance>>

(***************************************************************************)
(* Task registry: scheduler_add_task, scheduler_remove_task                *)
(***************************************************************************)
\* a scheduler_add_task whose capacity test is off by one
scheduler_add_task_off_by_one(tl, count, func, param, interval_ms, priority) ==
    IF count <= MAX_TASKS
    THEN [task_list |->
             [i \in 0..count |->
                IF i = count
                THEN [func |-> func, param |-> param, interval_ms |-> interval_ms,
                      last_run |-> 0, state |-> "TASK_READY", priority |-> priority]
                ELSE tl[i]],
          task_count |-> count + 1]
    ELSE [task_list |-> tl, task_count |-> count]

\* task_list and task_count after scheduler_add_task(func, param, interval_ms, priority)
scheduler_add_task(tl, count, func, param, interval_ms, priority) ==
    IF count < MAX_TASKS
    THEN [task_list |->
             [i \in 0..count |->
                IF i = count
                THEN [func |-> func, param |-> param, interval_ms |-> interval_ms,
                      last_run |-> 0, state |-> "TASK_READY", priority |-> priority]
                ELSE tl[i]],
          task_count |-> count + 1]
    ELSE [task_list |-> tl, task_count |-> count]

\* task_list after scheduler_remove_task(index)
scheduler_remove_task(tl, count, index) ==
    IF index >= 0 /\ index < count
    THEN [tl EXCEPT ![index].state = "TASK_TERMINATED"]
    ELSE tl

\* scheduler_add_task called by the driver or by the running callback
AddTaskCall(limit, interval_ms, priority) ==
    /\ task_count < limit
    /\ LET r == scheduler_add_task(task_list, task_count, TaskFuncs[task_count + 1],
                                   NULL, interval_ms, priority)
       IN /\ task_list' = r.task_list
          /\ task_count' = r.task_count
    /\ last_event' = IF task_count < MAX_TASKS THEN "none" ELSE "add_rejected"
    /\ UNCHANGED <<scheduler_type, current_task, rr_current_task, now, timer_armed,
                   configured, main_pc, run_index, run_now, isr_pc, isr_now, removed, dispatched_at>>
    /\ UNCHANGED <<queue_vars, sync_vars>>

AddTask(limit, interval_ms, priority) ==
    /\ AddTaskCall(limit, interval_ms, priority)
    /\ UNCHANGED log_vars

\* scheduler_remove_task called by the driver or by the running callback
RemoveTask(index) ==
    /\ task_list' = scheduler_remove_task(task_list, task_count, index)
    /\ removed' = IF index >= 0 /\ index < task_count THEN removed \cup {index} ELSE removed
    /\ last_event' = IF index >= 0 /\ index < task_count THEN "none" ELSE "remove_ignored"
    /\ UNCHANGED <<task_count, scheduler_type, current_task, rr_current_task, now,
                   timer_armed, configured, main_pc, run_index, run_now, isr_pc, isr_now,
                   dispatched_at>>
    /\ UNCHANGED <<queue_vars, sync_vars, log_vars>>

(***************************************************************************)
(* scheduler_setup: called once by the driver, as app_main does            *)
(***************************************************************************)
SchedulerSetup(type) ==
    /\ ~configured
    /\ main_pc = "idle"
    /\ scheduler_type' = type
    /\ timer_armed' = (type = "SCHEDULER_PREEMPTIVE")
    /\ configured' = TRUE
    /\ last_event' = "none"
    /\ UNCHANGED <<task_list, task_count, current_task, rr_current_task, now,
                   main_pc, run_index, run_now, isr_pc, isr_now, removed, dispatched_at>>
    /\ UNCHANGED <<queue_vars, sync_vars, log_vars>>

(***************************************************************************)
(* The clock: esp_timer_get_time() never goes back                         *)
(***************************************************************************)
ClockAdvance ==
    /\ now < MaxTime
    /\ now' = now + 1
    /\ last_event' = "none"
    /\ UNCHANGED <<task_list, task_count, scheduler_type, current_task, rr_current_task,
                   timer_armed, configured, main_pc, run_index, run_now, isr_pc, isr_now,
                   removed, dispatched_at>>
    /\ UNCHANGED <<queue_vars, sync_vars, log_vars>>

(***************************************************************************)
(* scheduler_run                                                           *)
(***************************************************************************)
\* a test that compares the time with the interval, not the elapsed time
Eligible_since_boot(tl, i, n) ==
    /\ tl[i].state # "TASK_TERMINATED"
    /\ n >= tl[i].interval_ms

\* the test every policy applies to task i at time n
Eligible(tl, i, n) ==
    /\ tl[i].state # "TASK_TERMINATED"
    /\ n - tl[i].last_run >= tl[i].interval_ms

\* a loop of SCHEDULER_FCFS without its break: the last task that passes wins
fcfs_scan_no_break(tl, count, n, i) ==
    LET E == {j \in i..(count - 1) : Eligible(tl, j, n)}
    IN IF E = {} THEN -1 ELSE CHOOSE j \in E : \A k \in E : k <= j

\* the loop of SCHEDULER_FCFS: the first task that passes the test, or -1
RECURSIVE fcfs_scan(_, _, _, _)
fcfs_scan(tl, count, n, i) ==
    IF i >= count THEN -1
    ELSE IF Eligible(tl, i, n) THEN i
    ELSE fcfs_scan(tl, count, n, i + 1)

\* the loop of SCHEDULER_PRIORITY and of timer_isr: highest_priority_task
RECURSIVE priority_scan(_, _, _, _, _, _)
priority_scan(tl, count, n, i, highest_priority_task, highest_priority) ==
    IF i >= count THEN highest_priority_task
    ELSE IF Eligible(tl, i, n) /\ tl[i].priority < highest_priority
         THEN priority_scan(tl, count, n, i + 1, i, tl[i].priority)
         ELSE priority_scan(tl, count, n, i + 1, highest_priority_task, highest_priority)

\* a scheduler_run whose SCHEDULER_PREEMPTIVE case runs the priority scan
scheduler_run_choice_preemptive_scans(type, tl, count, cursor, n) ==
    CASE type = "SCHEDULER_RR" ->
            IF count # 0 /\ Eligible(tl, cursor, n) THEN cursor ELSE -1
      [] type = "SCHEDULER_FCFS" -> fcfs_scan(tl, count, n, 0)
      [] OTHER -> priority_scan(tl, count, n, 0, -1, INT_MAX)

\* the task scheduler_run dispatches at time n, or -1
scheduler_run_choice(type, tl, count, cursor, n) ==
    CASE type = "SCHEDULER_RR" ->
            IF count # 0 /\ Eligible(tl, cursor, n) THEN cursor ELSE -1
      [] type = "SCHEDULER_FCFS" -> fcfs_scan(tl, count, n, 0)
      [] type = "SCHEDULER_PRIORITY" -> priority_scan(tl, count, n, 0, -1, INT_MAX)
      [] OTHER -> -1

\* a cursor that wraps at the capacity of task_list
rr_advance_capacity(cursor, count) == (cursor + 1) % MAX_TASKS

\* a cursor that is reduced modulo task_count without being advanced
rr_advance_forgotten(cursor, count) == cursor % count

\* the RR cursor after a scheduler_run call
rr_advance(cursor, count) == (cursor + 1) % count

\* scheduler_run up to the call of the dispatched callback, or all of it when
\* no task is dispatched
SchedulerRunCall ==
    /\ main_pc = "idle"
    /\ isr_pc = "off"
    /\ LET i == scheduler_run_choice(scheduler_type, task_list, task_count,
                                     rr_current_task, now)
       IN IF i # -1
          THEN /\ task_list' = [task_list EXCEPT ![i].state = "TASK_RUNNING"]
               /\ main_pc' = "callback"
               /\ run_index' = i
               /\ run_now' = now
               /\ dispatched_at' = [dispatched_at EXCEPT ![i] = now]
               /\ last_event' = "none"
               /\ UNCHANGED rr_current_task
          ELSE /\ rr_current_task' =
                     IF scheduler_type = "SCHEDULER_RR" /\ task_count # 0
                     THEN rr_advance(rr_current_task, task_count)
                     ELSE rr_current_task
               /\ last_event' = "run_idle"
               /\ UNCHANGED <<task_list, main_pc, run_index, run_now, dispatched_at>>
    /\ UNCHANGED <<task_count, scheduler_type, current_task, now, timer_armed,
                   configured, isr_pc, isr_now, removed>>
    /\ UNCHANGED <<queue_vars, sync_vars>>

SchedulerRun ==
    /\ SchedulerRunCall
    /\ UNCHANGED log_vars

\* a scheduler_run that records last_run and forgets to store TASK_READY
SchedulerRunReturnStaysRunning ==
    /\ main_pc = "callback"
    /\ isr_pc = "off"
    /\ task_list' = [task_list EXCEPT ![run_index].last_run = run_now]
    /\ rr_current_task' =
          IF scheduler_type = "SCHEDULER_RR"
          THEN (rr_current_task + 1) % task_count
          ELSE rr_current_task
    /\ main_pc' = "idle"
    /\ run_index' = -1
    /\ run_now' = 0
    /\ last_event' = "none"
    /\ UNCHANGED <<task_count, scheduler_type, current_task, now, timer_armed,
                   configured, isr_pc, isr_now, removed, dispatched_at>>
    /\ UNCHANGED <<queue_vars, sync_vars, log_vars>>

\* the dispatched callback returns and scheduler_run finishes
SchedulerRunReturn ==
    /\ main_pc = "callback"
    /\ isr_pc = "off"
    /\ task_list' = [task_list EXCEPT ![run_index].last_run = run_now,
                                      ![run_index].state = "TASK_READY"]
    /\ rr_current_task' =
          IF scheduler_type = "SCHEDULER_RR"
          THEN rr_advance(rr_current_task, task_count)
          ELSE rr_current_task
    /\ main_pc' = "idle"
    /\ run_index' = -1
    /\ run_now' = 0
    /\ last_event' = "none"
    /\ UNCHANGED <<task_count, scheduler_type, current_task, now, timer_armed,
                   configured, isr_pc, isr_now, removed, dispatched_at>>
    /\ UNCHANGED <<queue_vars, sync_vars, log_vars>>

(***************************************************************************)
(* timer_isr                                                               *)
(***************************************************************************)
\* the task timer_isr switches to at time n, or -1
timer_isr_choice(tl, count, current, n) ==
    LET highest_priority_task == priority_scan(tl, count, n, 0, -1, INT_MAX)
    IN IF highest_priority_task # -1 /\ highest_priority_task # current
       THEN highest_priority_task
       ELSE -1

\* timer_isr up to the call of the callback, or all of it when it does not switch
TimerIsr ==
    /\ timer_armed
    /\ isr_pc = "off"
    /\ LET i == timer_isr_choice(task_list, task_count, current_task, now)
       IN IF i # -1
          THEN /\ task_list' =
                     [j \in DOMAIN task_list |->
                        IF j = i THEN [task_list[j] EXCEPT !.state = "TASK_RUNNING"]
                        ELSE IF j = current_task
                             THEN [task_list[j] EXCEPT !.state = "TASK_READY"]
                             ELSE task_list[j]]
               /\ current_task' = i
               /\ isr_pc' = "callback"
               /\ isr_now' = now
               /\ dispatched_at' = [dispatched_at EXCEPT ![i] = now]
               /\ last_event' = "none"
          ELSE /\ last_event' = "isr_idle"
               /\ UNCHANGED <<task_list, current_task, isr_pc, isr_now, dispatched_at>>
    /\ UNCHANGED <<task_count, scheduler_type, rr_current_task, now, timer_armed,
                   configured, main_pc, run_index, run_now, removed>>
    /\ UNCHANGED <<queue_vars, sync_vars, log_vars>>

\* the callback returns and timer_isr finishes
TimerIsrReturn ==
    /\ isr_pc = "callback"
    /\ task_list' = [task_list EXCEPT ![current_task].last_run = isr_now,
                                      ![current_task].state = "TASK_READY"]
    /\ isr_pc' = "off"
    /\ isr_now' = 0
    /\ last_event' = "none"
    /\ UNCHANGED <<task_count, scheduler_type, current_task, rr_current_task, now,
                   timer_armed, configured, main_pc, run_index, run_now, removed,
                   dispatched_at>>
    /\ UNCHANGED <<queue_vars, sync_vars, log_vars>>

(***************************************************************************)
(* Specifications of the primitives                                        *)
(***************************************************************************)
Init ==
    /\ task_queue = queue_t_init
    /\ data = 0
    /\ event_flag = [flag |-> FALSE]
    /\ semaphore = [count |-> 0]
    /\ mutex = [locked |-> FALSE]
    /\ pc = [c \in Contexts |-> "idle"]
    /\ sem_tmp = [c \in Contexts |-> 0]
    /\ last_op = "none"
    /\ pop_ret = NoRet
    /\ pop_head = NoRet
    /\ fifo = <<>>
    /\ sem_init_value = 0
    /\ sem_balance = 0
    /\ lock_returns = 0
    /\ task_list = [i \in {} |-> NULL]
    /\ task_count = 0
    /\ scheduler_type = "SCHEDULER_RR"
    /\ current_task = -1
    /\ rr_current_task = 0
    /\ now = 0
    /\ timer_armed = FALSE
    /\ configured = FALSE
    /\ main_pc = "idle"
    /\ run_index = -1
    /\ run_now = 0
    /\ isr_pc = "off"
    /\ isr_now = 0
    /\ last_event = "none"
    /\ removed = {}
    /\ dispatched_at = [i \in 0..(MAX_TASKS - 1) |-> -1]
    /\ run_log = <<>>
    /\ passed_over = [i \in 0..(MAX_TASKS - 1) |-> 0]

NextQueue ==
    \/ \E item \in Items : QueuePush(item)
    \/ QueuePop

SpecQueue == Init /\ [][NextQueue]_vars

NextPC ==
    \/ ProducerTask
    \/ ConsumerTask

SpecPC == Init /\ [][NextPC]_vars

Primitive(c) ==
    \/ \E value \in SemInitValues : SemaphoreInit(c, value)
    \/ SemaphoreWaitCall(c)
    \/ SemaphoreWaitExitLoop(c)
    \/ SemaphoreWaitLoad(c)
    \/ SemaphoreWaitStore(c)
    \/ SemaphoreSignal(c)
    \/ MutexLockCall(c)
    \/ MutexLockAcquire(c)
    \/ MutexUnlock(c)
    \/ EventFlagSet(c)
    \/ EventFlagClear(c)

NextSeq == Primitive(SeqContext)

SpecSeq == Init /\ [][NextSeq]_vars

NextSync == \E c \in Contexts : Primitive(c)

SpecSync == Init /\ [][NextSync]_vars

(***************************************************************************)
(* Specification of the scheduler                                          *)
(***************************************************************************)
Next ==
    \/ \E interval_ms \in Intervals, priority \in Priorities :
          AddTask(MaxRegistered, interval_ms, priority)
    \/ \E index \in (-1)..MaxRegistered : RemoveTask(index)
    \/ \E type \in SchedulerTypes : SchedulerSetup(type)
    \/ ClockAdvance
    \/ SchedulerRun
    \/ SchedulerRunReturn
    \/ TimerIsr
    \/ TimerIsrReturn

Spec == Init /\ [][Next]_vars

(***************************************************************************)
(* Specification of the scheduler left at its default policy, SCHEDULER_RR *)
(***************************************************************************)
\* the task the main context has just been handed, or -1
Dispatched == IF main_pc = "callback" THEN run_index ELSE -1

\* the log keeps the last three scheduler_run calls
LogAppend(log, e) ==
    IF Len(log) < 3 THEN Append(log, e) ELSE Append(Tail(log), e)

\* scheduler_add_task; the log starts again with the new task_count
AddTaskRR(interval_ms) ==
    /\ AddTaskCall(MaxRegisteredRR, interval_ms, 1)
    /\ run_log' = <<>>
    /\ UNCHANGED passed_over

\* scheduler_run, logged
SchedulerRunRR ==
    /\ SchedulerRunCall
    /\ run_log' = LogAppend(run_log, Dispatched')
    /\ UNCHANGED passed_over

NextRR ==
    \/ \E interval_ms \in Intervals : AddTaskRR(interval_ms)
    \/ \E index \in (-1)..MaxRegisteredRR : RemoveTask(index)
    \/ ClockAdvance
    \/ SchedulerRunRR
    \/ SchedulerRunReturn

SpecRR == Init /\ [][NextRR]_vars

(***************************************************************************)
(* Specification of the scheduler left at SCHEDULER_RR, counting for each  *)
(* task the calls at which it was eligible and not examined                *)
(***************************************************************************)
\* scheduler_add_task; the counts start again with the new task_count
AddTaskCounted(interval_ms) ==
    /\ AddTaskCall(MaxRegisteredRR, interval_ms, 1)
    /\ passed_over' = [i \in 0..(MAX_TASKS - 1) |-> 0]
    /\ UNCHANGED run_log

\* scheduler_run, counted
SchedulerRunCounted ==
    /\ SchedulerRunCall
    /\ passed_over' =
          [i \in 0..(MAX_TASKS - 1) |->
             IF i < task_count /\ i # Dispatched' /\ Eligible(task_list, i, now)
             THEN passed_over[i] + 1
             ELSE 0]
    /\ UNCHANGED run_log

NextRRWait ==
    \/ \E interval_ms \in Intervals : AddTaskCounted(interval_ms)
    \/ \E index \in (-1)..MaxRegisteredRR : RemoveTask(index)
    \/ ClockAdvance
    \/ SchedulerRunCounted
    \/ SchedulerRunReturn

SpecRRWait == Init /\ [][NextRRWait]_vars

(***************************************************************************)
(* Specification of the scheduler set up with SCHEDULER_FCFS (tasks of     *)
(* priority 1; until scheduler_setup is called the policy is SCHEDULER_RR) *)
(***************************************************************************)
NextFCFS ==
    \/ \E interval_ms \in Intervals : AddTask(MaxRegistered, interval_ms, 1)
    \/ \E index \in (-1)..MaxRegistered : RemoveTask(index)
    \/ SchedulerSetup("SCHEDULER_FCFS")
    \/ ClockAdvance
    \/ SchedulerRun
    \/ SchedulerRunReturn

SpecFCFS == Init /\ [][NextFCFS]_vars

(***************************************************************************)
(* Specification of the scheduler set up with SCHEDULER_PREEMPTIVE (tasks  *)
(* of priority 1..MaxPriority; until scheduler_setup is called the policy  *)
(* is SCHEDULER_RR and the timer is off)                                   *)
(***************************************************************************)
NextPre ==
    \/ \E interval_ms \in Intervals, priority \in 1..MaxPriority :
          AddTask(MaxRegistered, interval_ms, priority)
    \/ \E index \in (-1)..MaxRegistered : RemoveTask(index)
    \/ SchedulerSetup("SCHEDULER_PREEMPTIVE")
    \/ ClockAdvance
    \/ SchedulerRun
    \/ SchedulerRunReturn
    \/ TimerIsr
    \/ TimerIsrReturn

SpecPre == Init /\ [][NextPre]_vars

(***************************************************************************)
(* Specification of scheduler_run (SCHEDULER_RR) with callbacks that call  *)
(* mutex_lock and mutex_unlock in any order, as critical_task does in the  *)
(* order lock, unlock. The main context, SeqContext, runs the driver and   *)
(* the callbacks: it calls scheduler_run or scheduler_add_task, or returns *)
(* from a callback, only when it is not inside mutex_lock. The other       *)
(* contexts call mutex_lock and mutex_unlock at any time.                  *)
(***************************************************************************)
SpinAddTask(interval_ms) ==
    /\ main_pc = "idle"
    /\ pc[SeqContext] = "idle"
    /\ AddTask(MaxRegistered, interval_ms, 1)

SpinRun ==
    /\ pc[SeqContext] = "idle"
    /\ SchedulerRun

SpinReturn ==
    /\ pc[SeqContext] = "idle"
    /\ SchedulerRunReturn

NextSpin ==
    \/ \E interval_ms \in Intervals : SpinAddTask(interval_ms)
    \/ ClockAdvance
    \/ SpinRun
    \/ SpinReturn
    \/ \E c \in Contexts : MutexLockCall(c)
    \/ \E c \in Contexts : MutexLockAcquire(c)
    \/ \E c \in Contexts : MutexUnlock(c)

SpecSpin == Init /\ [][NextSpin]_vars

(***************************************************************************)
(* Specification of the registry: scheduler_add_task is called also when   *)
(* task_list is full                                                       *)
(***************************************************************************)
NextRegistry ==
    \/ \E interval_ms \in Intervals : AddTask(MAX_TASKS + 1, interval_ms, 1)
    \/ \E index \in (-1)..MAX_TASKS : RemoveTask(index)

SpecRegistry == Init /\ [][NextRegistry]_vars

(***************************************************************************)
(* Properties                                                              *)
(***************************************************************************)

\* C1 (SpecSync): between two returns of mutex_lock, in whatever contexts,
\* a mutex_unlock has executed: mutex_lock never returns a second time while
\* no mutex_unlock has run since its previous return.
C1_MutexExclusion == lock_returns <= 1

\* mutex_lock has returned in one context while another spins inside mutex_lock
C1_Witness ==
    /\ lock_returns = 1
    /\ mutex.locked
    /\ \E c \in Contexts : pc[c] = "mutex_spin"

\* C2 (SpecSync): semaphore_wait checks and decrements in separate steps: a
\* context leaves the loop only on seeing count > 0, and from then on it
\* loads and stores count - 1 without looking at count again, whatever the
\* other contexts did to count in between.
C2_CheckThenDecrement ==
    [][\A c \in Contexts :
          /\ (pc[c] = "sem_spin" /\ pc'[c] # "sem_spin")
                => (semaphore.count > 0 /\ pc'[c] = "sem_load")
          /\ (pc[c] = "sem_load" /\ pc'[c] # "sem_load")
                => (pc'[c] = "sem_store" /\ sem_tmp'[c] = semaphore.count)
          /\ (pc[c] = "sem_store" /\ pc'[c] # "sem_store")
                => (pc'[c] = "idle" /\ semaphore'.count = sem_tmp[c] - 1)]_vars

\* after semaphore_init(1) and no more signals than waits, two semaphore_wait
\* calls have both returned and count is negative
C2_Witness ==
    /\ sem_init_value = 1
    /\ sem_balance = -2
    /\ semaphore.count = -1
    /\ \A c \in Contexts : pc[c] = "idle"

\* C3 (SpecSeq): in a single context count is the initial value plus the
\* signals minus the completed waits (each signal adds exactly 1, each
\* completed wait takes exactly 1), and after an initial value >= 0 it is
\* never negative.
C3_SemaphoreCount ==
    /\ semaphore.count = sem_init_value + sem_balance
    /\ sem_init_value >= 0 => semaphore.count >= 0

\* a wait has used the last permit and the next semaphore_wait spins at count 0
C3_Witness ==
    /\ sem_init_value > 0
    /\ sem_balance < 0
    /\ semaphore.count = 0
    /\ pc[SeqContext] = "sem_spin"

\* C4 (Spec): a task scheduler_remove_task has marked Terminated stays
\* Terminated (so it is never Running, never dispatched again).
C4_TerminatedForever ==
    \A i \in removed : task_list[i].state = "TASK_TERMINATED"

\* the eligible task with the smallest priority, the lowest index among
\* equals, or -1 when no task is eligible
BestEligible ==
    LET E == {i \in 0..(task_count - 1) : Eligible(task_list, i, now)}
    IN IF E = {} THEN -1
       ELSE CHOOSE i \in E :
               \A j \in E : \/ task_list[i].priority < task_list[j].priority
                            \/ task_list[i].priority = task_list[j].priority /\ i <= j

\* the task the interrupt context has just been handed, or -1
IsrDispatched == IF isr_pc = "callback" THEN current_task ELSE -1

\* C5 (Spec): a scheduler_run call under SCHEDULER_PRIORITY, and a timer_isr
\* call, invokes the callback of the eligible task with the smallest
\* priority (lowest index among equals), and invokes nothing only when no
\* task is eligible.
C5_PriorityRunsBest ==
    [][/\ (scheduler_type = "SCHEDULER_PRIORITY" /\ SchedulerRun)
             => Dispatched' = BestEligible
       /\ TimerIsr => IsrDispatched' = BestEligible]_vars

\* C6 (SpecQueue): what queue_pop returns on an empty queue is none of the
\* values queue_push can store.
C6_EmptyResultDistinct == last_op = "pop_empty" => pop_ret \notin Items

\* C7 (SpecQueue): the stored items, front to rear, are the accepted and not
\* yet popped items in push order, and a successful queue_pop returns the
\* oldest of them.
C7_Fifo ==
    /\ LiveItems(task_queue) = fifo
    /\ last_op = "pop" => pop_ret = pop_head
    /\ last_op = "pop_empty" => pop_head = NoRet

\* a pop has returned a non-NULL item after rear has wrapped around
C7_Witness ==
    /\ last_op = "pop"
    /\ pop_ret # NULL
    /\ task_queue.size > 0
    /\ task_queue.rear <= task_queue.front

\* C8 (SpecQueue): 0 <= size <= MAX_QUEUE_SIZE.
C8_SizeInRange == task_queue.size >= 0 /\ task_queue.size <= MAX_QUEUE_SIZE

\* the push that filled the queue
C8_Witness == last_op = "push" /\ task_queue.size = MAX_QUEUE_SIZE

\* C9 (SpecQueue): queue_push on a full queue changes neither size, front,
\* rear nor any slot, and the items to be popped stay the ten accepted ones.
C9_PushFullNoOp ==
    [][\A item \in Items :
          (task_queue.size = MAX_QUEUE_SIZE /\ QueuePush(item))
             => /\ task_queue' = task_queue
                /\ LiveItems(task_queue') = fifo
                /\ Len(fifo) = MAX_QUEUE_SIZE]_vars

\* an item has been dropped by a full queue whose front is not slot 0
C9_Witness ==
    /\ last_op = "push_dropped"
    /\ task_queue.size = MAX_QUEUE_SIZE
    /\ task_queue.front # 0

\* C10 (SpecRR): every scheduler_run call with task_count >= 1 examines only
\* the task at the cursor and moves the cursor by one modulo task_count,
\* whether or not the task ran; and three consecutive calls that each ran a
\* task among 3 registered tasks ran three different tasks in cyclic
\* registration order.
C10_RoundRobin ==
    [][/\ (SchedulerRunRR /\ task_count >= 1)
             => /\ Dispatched' =
                      IF Eligible(task_list, rr_current_task, now)
                      THEN rr_current_task ELSE -1
                /\ Dispatched' = -1
                      => rr_current_task' = (rr_current_task + 1) % task_count
                /\ Dispatched' # -1 => rr_current_task' = rr_current_task
       /\ SchedulerRunReturn
             => /\ run_index = rr_current_task
                /\ rr_current_task' = (rr_current_task + 1) % task_count
       /\ (task_count' = 3 /\ Len(run_log') = 3 /\ \A k \in 1..3 : run_log'[k] # -1)
             => /\ run_log'[2] = (run_log'[1] + 1) % 3
                /\ run_log'[3] = (run_log'[2] + 1) % 3]_vars

\* three calls in a row have run the three tasks 0, 1, 2 in that order
C10_Witness ==
    /\ task_count = 3
    /\ run_log = <<0, 1, 2>>
    /\ main_pc = "idle"
    /\ rr_current_task = 0

\* the eligible task with the lowest registration index, or -1
LowestEligible ==
    LET E == {i \in 0..(task_count - 1) : Eligible(task_list, i, now)}
    IN IF E = {} THEN -1 ELSE CHOOSE i \in E : \A j \in E : i <= j

\* C11 (SpecFCFS): a scheduler_run call under SCHEDULER_FCFS hands the
\* processor to at most one task, leaves the record of every other task as it
\* was, and when some task is eligible the task it invokes is the eligible
\* task with the lowest registration index (nothing is invoked only when no
\* task is eligible); so after A ran, a call at which A is no longer due and
\* B is due invokes B.
C11_FcfsLowestIndex ==
    [][(scheduler_type = "SCHEDULER_FCFS" /\ SchedulerRun)
          => /\ Dispatched' = LowestEligible
             /\ \A j \in 0..(task_count - 1) :
                   j # Dispatched' => task_list'[j] = task_list[j]
             /\ Dispatched' # -1 =>
                   task_list'[Dispatched'] =
                      [task_list[Dispatched'] EXCEPT !.state = "TASK_RUNNING"]]_vars

\* A (task 0) ran at this time and is no longer due; the next call runs B (task 1)
C11_Witness ==
    /\ scheduler_type = "SCHEDULER_FCFS"
    /\ task_count = 2
    /\ now > 0
    /\ task_list[0].state = "TASK_READY"
    /\ task_list[0].last_run = now
    /\ task_list[1].last_run = 0
    /\ main_pc = "callback"
    /\ run_index = 1
    /\ run_now = now

\* C12 (SpecRegistry): scheduler_add_task with MAX_TASKS entries registered
\* leaves task_count and every task record as they were; with fewer it writes
\* one record at index task_count (TASK_READY, last_run 0, the given
\* interval) and leaves the earlier records at their indices; task_count
\* stays within 0..MAX_TASKS and never decreases.
C12_AddTask ==
    [][/\ \A interval_ms \in Intervals :
             AddTask(MAX_TASKS + 1, interval_ms, 1)
                => IF task_count >= MAX_TASKS
                   THEN task_count' = task_count /\ task_list' = task_list
                   ELSE /\ task_count' = task_count + 1
                        /\ DOMAIN task_list' = 0..task_count
                        /\ task_list'[task_count].state = "TASK_READY"
                        /\ task_list'[task_count].last_run = 0
                        /\ task_list'[task_count].interval_ms = interval_ms
                        /\ task_list'[task_count].priority = 1
                        /\ \A i \in 0..(task_count - 1) : task_list'[i] = task_list[i]
       /\ task_count' >= task_count
       /\ task_count' >= 0 /\ task_count' <= MAX_TASKS]_vars

\* a sixth scheduler_add_task has been rejected, with a Terminated task among the five
C12_Witness ==
    /\ last_event = "add_rejected"
    /\ task_count = MAX_TASKS
    /\ \E i \in 0..(MAX_TASKS - 1) : task_list[i].state = "TASK_TERMINATED"

\* the policies under which scheduler_run dispatches
Cooperative ==
    scheduler_type \in {"SCHEDULER_RR", "SCHEDULER_FCFS", "SCHEDULER_PRIORITY"}

\* the tasks in state TASK_RUNNING
Running == {i \in 0..(task_count - 1) : task_list[i].state = "TASK_RUNNING"}

\* C13 as stated (Spec): under RR, FCFS and Priority, while a dispatched
\* callback executes exactly the dispatched task is Running, and outside a
\* callback no task is Running.
C13_ExactlyOneRunning ==
    Cooperative =>
       IF main_pc = "callback" THEN Running = {run_index} ELSE Running = {}

\* C13 as amended (Spec): under RR, FCFS and Priority a task is Running only
\* during its own callback invocation (so never two at once, and none after
\* scheduler_run has returned); while the callback executes the dispatched
\* task is Running, or Terminated once scheduler_remove_task has been called
\* on it.
C13_RunningOnlyInCallback ==
    Cooperative =>
       /\ Running \subseteq (IF main_pc = "callback" THEN {run_index} ELSE {})
       /\ main_pc = "callback" =>
             \/ task_list[run_index].state = "TASK_RUNNING"
             \/ task_list[run_index].state = "TASK_TERMINATED" /\ run_index \in removed

\* under SCHEDULER_PRIORITY the callback of task 1 executes while task 0 is
\* registered, not Terminated and due as well
C13_Witness ==
    /\ scheduler_type = "SCHEDULER_PRIORITY"
    /\ main_pc = "callback"
    /\ run_index = 1
    /\ Running = {1}
    /\ Eligible(task_list, 0, now)

\* C14 (Spec): a timer_isr call whose winner, the eligible task with the
\* smallest priority, exists and differs from current_task stores TASK_READY
\* in the previously tracked task (if any), makes the winner current_task
\* and TASK_RUNNING and invokes it with the time sampled at entry, and on
\* return stores that time in its last_run and TASK_READY in its state; a
\* call with no eligible task or with the winner equal to current_task
\* invokes nothing and changes no task record and not current_task.
C14_TimerIsrSwitch ==
    [][/\ TimerIsr =>
             IF BestEligible # -1 /\ BestEligible # current_task
             THEN /\ current_task' = BestEligible
                  /\ isr_pc' = "callback"
                  /\ isr_now' = now
                  /\ task_list'[BestEligible] =
                        [task_list[BestEligible] EXCEPT !.state = "TASK_RUNNING"]
                  /\ \A j \in 0..(task_count - 1) :
                        j # BestEligible =>
                           task_list'[j] =
                              IF j = current_task
                              THEN [task_list[j] EXCEPT !.state = "TASK_READY"]
                              ELSE task_list[j]
             ELSE /\ task_list' = task_list
                  /\ current_task' = current_task
                  /\ isr_pc' = "off"
       /\ TimerIsrReturn =>
             /\ current_task' = current_task
             /\ task_list' = [task_list EXCEPT ![current_task].last_run = isr_now,
                                               ![current_task].state = "TASK_READY"]]_vars

\* C15 (SpecPre): under SCHEDULER_PREEMPTIVE a scheduler_run call invokes no
\* callback and changes no task record, not task_count and not current_task,
\* and the main context is never inside a callback: callbacks are invoked by
\* timer_isr only.
C15_RunInertWhenPreemptive ==
    [][/\ (scheduler_type = "SCHEDULER_PREEMPTIVE" /\ SchedulerRun)
             => /\ Dispatched' = -1
                /\ task_list' = task_list
                /\ task_count' = task_count
                /\ current_task' = current_task
       /\ scheduler_type' = "SCHEDULER_PREEMPTIVE" => main_pc' = "idle"]_vars

\* scheduler_run has returned without a dispatch although a task is eligible
\* and no interrupt handler is running
C15_Witness ==
    /\ scheduler_type = "SCHEDULER_PREEMPTIVE"
    /\ last_event = "run_idle"
    /\ BestEligible # -1
    /\ isr_pc = "off"
    /\ main_pc = "idle"

\* C16 (Spec): under every policy a callback is invoked only for a task that
\* at that moment is not Terminated and has now - last_run >= interval_ms;
\* when it returns, last_run is the time sampled when the call or the
\* interrupt began; and two successive invocations of the same task are at
\* least interval_ms apart.
C16_DispatchWhenDue ==
    [][/\ (SchedulerRun /\ Dispatched' # -1) =>
             LET t == task_list[Dispatched']
             IN /\ t.state # "TASK_TERMINATED"
                /\ now - t.last_run >= t.interval_ms
                /\ run_now' = now
                /\ dispatched_at[Dispatched'] # -1 =>
                      now - dispatched_at[Dispatched'] >= t.interval_ms
       /\ (TimerIsr /\ IsrDispatched' # -1) =>
             LET t == task_list[IsrDispatched']
             IN /\ t.state # "TASK_TERMINATED"
                /\ now - t.last_run >= t.interval_ms
                /\ isr_now' = now
                /\ dispatched_at[IsrDispatched'] # -1 =>
                      now - dispatched_at[IsrDispatched'] >= t.interval_ms
       /\ SchedulerRunReturn =>
             /\ task_list'[run_index].last_run = run_now
             /\ run_now = dispatched_at[run_index]
       /\ TimerIsrReturn =>
             /\ task_list'[current_task].last_run = isr_now
             /\ isr_now = dispatched_at[current_task]]_vars

\* a task of interval 1 that ran at time 1 is invoked for the second time, at
\* time 2
C16_Witness ==
    /\ main_pc = "callback"
    /\ now = 2
    /\ dispatched_at[run_index] = 2
    /\ task_list[run_index].last_run = 1
    /\ task_list[run_index].interval_ms = 1
    /\ task_list[run_index].state = "TASK_RUNNING"

\* C17 (SpecSpin): mutex_lock has no timeout. A context spinning in
\* mutex_lock on a locked mutex is still spinning, and the mutex still
\* locked, after any step that is not a mutex_unlock executed by another
\* context (the spinning context itself executes nothing else, so a second
\* mutex_lock by a context that holds the mutex never returns by itself);
\* and while the callback of a dispatched task spins in mutex_lock,
\* scheduler_run does not return and no task is dispatched.
C17_SpinHasNoTimeout ==
    [][/\ \A c \in Contexts :
             (/\ pc[c] = "mutex_spin"
              /\ mutex.locked
              /\ ~(\E d \in Contexts \ {c} : MutexUnlock(d)))
                => (pc'[c] = "mutex_spin" /\ mutex'.locked)
       /\ (main_pc = "callback" /\ pc[SeqContext] = "mutex_spin")
             => /\ main_pc' = "callback"
                /\ run_index' = run_index
                /\ dispatched_at' = dispatched_at
                /\ \A i \in 0..(task_count - 1) : task_list'[i] = task_list[i]]_vars

\* the callback of task 0 spins in mutex_lock on a locked mutex while task 1
\* is due and the clock has advanced since the dispatch
C17_Witness ==
    /\ main_pc = "callback"
    /\ run_index = 0
    /\ pc[SeqContext] = "mutex_spin"
    /\ mutex.locked
    /\ \A c \in Contexts \ {SeqContext} : pc[c] = "idle"
    /\ task_count = 2
    /\ now > run_now
    /\ Eligible(task_list, 1, now)

\* C18 (SpecPre): under SCHEDULER_PREEMPTIVE every timer_isr call at which
\* some task is eligible invokes the eligible task with the smallest
\* priority; so a task that is alone in the registry, or always the winner,
\* is invoked again at the first interrupt after each of its intervals.
C18_InvokedWheneverWinner ==
    [][(TimerIsr /\ BestEligible # -1) => IsrDispatched' = BestEligible]_vars

\* C19 (SpecPC): whatever the order of producer_task and consumer_task runs,
\* the queue is empty whenever the event flag is clear (no produced item is
\* left in the queue without a pending event).
C19_FlagClearQueueEmpty == ~event_flag.flag => task_queue.size = 0

\* C20 (SpecRRWait): under SCHEDULER_RR with n >= 1 registered tasks the
\* cursor is a valid index, 0 <= cursor < n, and a task that is eligible is
\* passed over by at most n - 1 scheduler_run calls in a row: the n-th call
\* at the latest invokes it.
C20_RrNoStarvation ==
    /\ task_count >= 1 => (rr_current_task >= 0 /\ rr_current_task < task_count)
    /\ \A i \in 0..(task_count - 1) : passed_over[i] <= task_count - 1

\* among 3 tasks, task 2 has been eligible and passed over at 2 calls in a
\* row, and the cursor has reached it
C20_Witness ==
    /\ task_count = 3
    /\ passed_over[2] = 2
    /\ rr_current_task = 2
    /\ main_pc = "idle"
    /\ Eligible(task_list, 2, now)

====
